---- MODULE Spec2Model ----
(***************************************************************************)
(* Session lifecycle controller of the WhatsApp automation API             *)
(* (src/index.js): the module-level runtime state, the adapter event       *)
(* handlers registered by initializeClient, the recovery routine           *)
(* hardRestart with its two suspension points, the heartbeat watchdog and  *)
(* the HTTP endpoints.                                                     *)
(*                                                                         *)
(* Node runs every handler to its first await without interruption, so     *)
(* each action below is one such run-to-completion segment.  Time is       *)
(* counted in watchdog periods (60 s): the clock advances when the         *)
(* setInterval callback fires, and every other handler reads the clock     *)
(* without advancing it.  Handlers run at the instants in Times; the       *)
(* watchdog callbacks of the periods in between, during which nothing else *)
(* runs, are taken together with the next one when they find nothing to    *)
(* do.                                                                     *)
(***************************************************************************)
EXTENDS Integers, Sequences, FiniteSets, TLC

\* ---- bounds of the model ----
MaxClients == 2      \* adapter instances ever constructed
MaxRecov == 2        \* hardRestart activations suspended at once
MaxJobs == 1         \* QR encodings (qrcode.toDataURL) pending at once
MaxTime == 16        \* watchdog periods elapsed
MaxEarly == 1        \* last instant before the threshold at which handlers run
MaxLen == 1          \* length of a target identifier

\* ---- program constants ----
StaleTicks == 15     \* 15 * 60 * 1000 ms, in watchdog periods of 60 * 1000 ms

NoClient == 0        \* `let client;` (undefined)
Null == -1           \* lastReadyAt = null
NoQr == <<>>         \* qrCodeData = null
NoUrl == "null"      \* webhookUrl = null
NullJID == <<"null">>   \* formatJID's null result

Clients == 1..MaxClients
Chars == {"1", "-", "@"}
Urls == {"http://hook"}
QrPayloads == {"qr"}

\* the instants at which handlers run: the first ones, and those from the
\* staleness threshold on
Times == {t \in 0..MaxTime : t <= MaxEarly \/ t >= StaleTicks}

RECURSIVE SeqsUpTo(_)
SeqsUpTo(n) ==
    IF n = 0 THEN {<<>>}
    ELSE LET S == SeqsUpTo(n - 1)
         IN  S \cup {Append(s, ch) : s \in {t \in S : Len(t) = n - 1}, ch \in Chars}

\* request values of `to` and `chatId`; <<>> is the missing or empty string
Identifiers == SeqsUpTo(MaxLen)

VARIABLES
    client,             \* let client
    qrCodeData,         \* let qrCodeData = null
    isAuthenticated,    \* let isAuthenticated = false
    isReady,            \* let isReady = false
    webhookUrl,         \* let webhookUrl = null
    isListening,        \* let isListening = false
    lastReadyAt,        \* let lastReadyAt = null
    restarting,         \* let restarting = false
    adapters,           \* each Client instance: none, connected, destroying, destroyed
    procs,              \* hardRestart activations suspended at an await (pc), with the
                        \* calls each has made so far, ordered by Rank
    qrJobs,             \* qr handlers suspended in `await qrcode.toDataURL(qr)`
    now,                \* Date.now(), in watchdog periods
    lastOp              \* the last event, request or stale tick handled, and the answer given

vars == <<client, qrCodeData, isAuthenticated, isReady, webhookUrl, isListening,
          lastReadyAt, restarting, adapters, procs, qrJobs, now, lastOp>>

\* the Runtime State Store
store == <<qrCodeData, isAuthenticated, isReady, webhookUrl, isListening,
           lastReadyAt, restarting>>

\* h: the handler; status, body: its HTTP answer (or the webhook's); arg: the
\* identifier received; jid: the identifier handed to client.sendMessage
Op(h, status, body, arg, jid) ==
    [h |-> h, status |-> status, body |-> body, arg |-> arg, jid |-> jid]

Quiet(h) == Op(h, 0, "", <<>>, <<>>)

Init ==
    /\ client = NoClient
    /\ qrCodeData = NoQr
    /\ isAuthenticated = FALSE
    /\ isReady = FALSE
    /\ webhookUrl = NoUrl
    /\ isListening = FALSE
    /\ lastReadyAt = Null
    /\ restarting = FALSE
    /\ adapters = [c \in Clients |-> "none"]
    /\ procs = <<>>
    /\ qrJobs = <<>>
    /\ now = 0
    /\ lastOp = Quiet("load")

\* ---- helpers ----

Contains(s, ch) == \E i \in 1..Len(s) : s[i] = ch

GroupSuffix == <<"@", "g", ".", "u", "s">>
UserSuffix == <<"@", "c", ".", "u", "s">>

formatJID(number) ==
    IF number = <<>> THEN NullJID
    ELSE IF Contains(number, "@") THEN number
    ELSE IF Contains(number, "-") THEN number \o GroupSuffix
    ELSE number \o UserSuffix

\* qrcode.toDataURL: the payload wrapped as a data URL
toDataURL(qr) == <<"data:image/png;base64", qr>>

Remove(s, i) == [j \in 1..(Len(s) - 1) |-> IF j < i THEN s[j] ELSE s[j + 1]]

\* The suspended activations of hardRestart are kept in one fixed order (by
\* instance, wipe flag and position): the event loop resumes them by their
\* own promises, in no order of its own.
Rank(p) ==
    4 * p.target + (IF p.wipeAuth THEN 2 ELSE 0) + (IF p.pc = "sleep" THEN 1 ELSE 0)

Insert(s, p) ==
    LET k == Cardinality({i \in 1..Len(s) : Rank(s[i]) <= Rank(p)})
    IN SubSeq(s, 1, k) \o <<p>> \o SubSeq(s, k + 1, Len(s))

\* An instance emits events from client.initialize() until a destroy() of it
\* has settled; a handle whose destroy() threw is taken to be dead, as the
\* code takes it (`catch (e) {}`).
Emitting(c) == adapters[c] \in {"connected", "destroying"}

Unused == {c \in Clients : adapters[c] = "none"}

\* The phase of the session, read off the runtime state: Restarting while the
\* guard is set and destroy() has been called on the current client, that is
\* from an accepted recovery until initializeClient() or the next ready.
Phase ==
    IF client = NoClient THEN "Uninitialized"
    ELSE IF restarting /\ adapters[client] # "connected" THEN "Restarting"
    ELSE IF isReady THEN "Ready"
    ELSE IF isAuthenticated THEN "Authenticated"
    ELSE IF qrCodeData # NoQr THEN "AwaitingQR"
    ELSE "Initializing"

\* ---- initialization ----

\* initializeClient past its guard: restarting = true, resetRuntimeState(),
\* client = new Client(...), handlers registered, client.initialize() called
initializeClient ==
    /\ Unused # {}
    /\ LET c == CHOOSE x \in Unused : \A y \in Unused : x <= y
       IN  /\ client' = c
           /\ adapters' = [adapters EXCEPT ![c] = "connected"]
    /\ restarting' = TRUE
    /\ qrCodeData' = NoQr
    /\ isAuthenticated' = FALSE
    /\ isReady' = FALSE

\* app.listen callback: initializeClient(), whose guard `if (restarting) return`
\* passes at start-up
StartServer ==
    /\ client = NoClient
    /\ ~restarting
    /\ initializeClient
    /\ lastOp' = Quiet("start")
    /\ UNCHANGED <<webhookUrl, isListening, lastReadyAt, procs, qrJobs, now>>

\* ---- adapter events ----

\* client.on('qr'): the handler suspends in `await qrcode.toDataURL(qr)`
QrEvent(c, qr) ==
    /\ Emitting(c)
    /\ Len(qrJobs) < MaxJobs
    /\ qrJobs' = Append(qrJobs, qr)
    /\ lastOp' = Quiet("qr")
    /\ UNCHANGED <<client, store, adapters, procs, now>>

\* the rest of the qr handler, once the encoding is done
QrEncoded(i) ==
    /\ i \in 1..Len(qrJobs)
    /\ qrCodeData' = toDataURL(qrJobs[i])
    /\ isAuthenticated' = FALSE
    /\ isReady' = FALSE
    /\ qrJobs' = Remove(qrJobs, i)
    /\ UNCHANGED <<client, webhookUrl, isListening, lastReadyAt, restarting,
                   adapters, procs, now, lastOp>>

\* client.on('authenticated')
AuthenticatedEvent(c) ==
    /\ Emitting(c)
    /\ isAuthenticated' = TRUE
    /\ lastOp' = Quiet("authenticated")
    /\ UNCHANGED <<client, qrCodeData, isReady, webhookUrl, isListening, lastReadyAt,
                   restarting, adapters, procs, qrJobs, now>>

\* the ready handler without `lastReadyAt = Date.now()`
ReadyEventNoStamp(c) ==
    /\ Emitting(c)
    /\ isAuthenticated' = TRUE
    /\ isReady' = TRUE
    /\ qrCodeData' = NoQr
    /\ restarting' = FALSE
    /\ lastOp' = Quiet("ready")
    /\ UNCHANGED <<client, webhookUrl, isListening, lastReadyAt, adapters, procs, qrJobs, now>>

\* client.on('ready')
ReadyEvent(c) ==
    /\ Emitting(c)
    /\ isAuthenticated' = TRUE
    /\ isReady' = TRUE
    /\ qrCodeData' = NoQr
    /\ lastReadyAt' = now
    /\ restarting' = FALSE
    /\ lastOp' = Quiet("ready")
    /\ UNCHANGED <<client, webhookUrl, isListening, adapters, procs, qrJobs, now>>

\* ---- recovery ----

\* hardRestart without `if (restarting) return`
hardRestartUnguarded(wipeAuth) ==
    /\ Len(procs) < MaxRecov
    /\ restarting' = TRUE
    /\ adapters' = [adapters EXCEPT ![client] = IF @ = "connected" THEN "destroying" ELSE @]
    /\ procs' = Insert(procs, [pc |-> "destroy", wipeAuth |-> wipeAuth, target |-> client,
                                calls |-> <<"destroy">>])

\* hardRestart up to its first await: the guard, `restarting = true`, and the
\* call of client.destroy().  Without a client (`if (client)`) the routine
\* runs on to the sleep.
hardRestart(wipeAuth) ==
    IF restarting
    THEN UNCHANGED <<restarting, adapters, procs>>
    ELSE /\ Len(procs) < MaxRecov
         /\ restarting' = TRUE
         /\ IF client # NoClient
            THEN /\ adapters' = [adapters EXCEPT
                                   ![client] = IF @ = "connected" THEN "destroying" ELSE @]
                 /\ procs' = Insert(procs, [pc |-> "destroy", wipeAuth |-> wipeAuth,
                                            target |-> client, calls |-> <<"destroy">>])
            ELSE /\ adapters' = adapters
                 /\ procs' = Insert(procs, [pc |-> "sleep", wipeAuth |-> wipeAuth,
                                            target |-> client, calls |-> <<"sleep">>])

\* client.on('auth_failure')
AuthFailureEvent(c) ==
    /\ Emitting(c)
    /\ hardRestart(TRUE)
    /\ lastOp' = Quiet("auth_failure")
    /\ UNCHANGED <<client, qrCodeData, isAuthenticated, isReady, webhookUrl, isListening,
                   lastReadyAt, qrJobs, now>>

\* client.on('disconnected')
DisconnectedEvent(c) ==
    /\ Emitting(c)
    /\ hardRestart(FALSE)
    /\ lastOp' = Quiet("disconnected")
    /\ UNCHANGED <<client, qrCodeData, isAuthenticated, isReady, webhookUrl, isListening,
                   lastReadyAt, qrJobs, now>>

\* `if (wipeAuth)`: fs.rmSync of '.wwebjs_auth' then of '.wwebjs_cache'; both
\* are removed, or the first or the second call throws (force: true forgives
\* only a missing directory)
RmOutcomes(wipeAuth) ==
    IF wipeAuth THEN {"wiped", "rm-auth-threw", "rm-cache-threw"} ELSE {"kept"}

\* the wipe deleting '.wwebjs_auth' only
SettleAuthOnly(rm) ==
    IF rm = "wiped" THEN <<"rmAuth", "sleep">> ELSE <<"sleep">>

\* the calls hardRestart makes between its two awaits
Settle(rm) ==
    IF rm = "wiped" THEN <<"rmAuth", "rmCache", "sleep">> ELSE <<"sleep">>

\* hardRestart from the return of `await client.destroy()` (resolved, or
\* rejected and caught) to `await sleep(5000)`: the optional wipe.  An
\* exception of rmSync ends the activation there, with restarting still set.
DestroySettled(i, rm) ==
    /\ i \in 1..Len(procs)
    /\ procs[i].pc = "destroy"
    /\ rm \in RmOutcomes(procs[i].wipeAuth)
    /\ adapters' = [adapters EXCEPT ![procs[i].target] = "destroyed"]
    /\ procs' = IF rm \in {"wiped", "kept"}
                THEN Insert(Remove(procs, i),
                            [procs[i] EXCEPT !.pc = "sleep", !.calls = @ \o Settle(rm)])
                ELSE Remove(procs, i)
    /\ UNCHANGED <<client, store, qrJobs, now, lastOp>>

\* the re-initialization resetting the relay configuration with the session
SleepDoneResetting(i) ==
    /\ i \in 1..Len(procs)
    /\ procs[i].pc = "sleep"
    /\ initializeClient
    /\ procs' = Remove(procs, i)
    /\ isListening' = FALSE
    /\ webhookUrl' = NoUrl
    /\ UNCHANGED <<lastReadyAt, qrJobs, now, lastOp>>

\* hardRestart after the settle delay: `restarting = false; initializeClient()`,
\* whose guard then passes
SleepDone(i) ==
    /\ i \in 1..Len(procs)
    /\ procs[i].pc = "sleep"
    /\ initializeClient
    /\ procs' = Remove(procs, i)
    /\ UNCHANGED <<webhookUrl, isListening, lastReadyAt, qrJobs, now, lastOp>>

\* ---- heartbeat watchdog ----

\* the comparison made one watchdog period late
StaleLate(t) == t - (IF lastReadyAt = Null THEN 0 ELSE lastReadyAt) > StaleTicks + 1

\* the comparison with `>=` in place of `>`
StaleAtThreshold(t) == t - (IF lastReadyAt = Null THEN 0 ELSE lastReadyAt) >= StaleTicks

\* `diff > 15 * 60 * 1000` for diff = now - lastReadyAt at time t (null counts 0)
Stale(t) == t - (IF lastReadyAt = Null THEN 0 ELSE lastReadyAt) > StaleTicks

\* The setInterval callback, k periods after the one modelled last: the k - 1
\* callbacks in between returned at `if (!isReady) return`, found diff within
\* the threshold, or had hardRestart return at its guard.
WatchdogTick(k) ==
    /\ now + k \in Times
    /\ \A t \in (now + 1)..(now + k - 1) : ~(isReady /\ Stale(t) /\ ~restarting)
    /\ now' = now + k
    /\ IF isReady /\ Stale(now + k)
       THEN /\ hardRestart(FALSE)
            /\ lastOp' = Op("watchdog", 0, "Heartbeat lost", <<>>, <<>>)
       ELSE UNCHANGED <<restarting, adapters, procs, lastOp>>
    /\ UNCHANGED <<client, qrCodeData, isAuthenticated, isReady, webhookUrl, isListening,
                   lastReadyAt, qrJobs>>

\* ---- webhook relay ----

\* the message handler posting whether or not listening is enabled
MessageEventUngated(c, delivered) ==
    /\ Emitting(c)
    /\ lastOp' = IF webhookUrl = NoUrl
                 THEN Op("message", 0, "ignored", <<>>, <<>>)
                 ELSE Op("message", IF delivered THEN 200 ELSE 500, webhookUrl, <<>>, <<>>)
    /\ UNCHANGED <<client, store, adapters, procs, qrJobs, now>>

\* client.on('message'): one axios.post when listening and a webhook is set;
\* a failed post is caught and logged
MessageEvent(c, delivered) ==
    /\ Emitting(c)
    /\ lastOp' = IF ~isListening \/ webhookUrl = NoUrl
                 THEN Op("message", 0, "ignored", <<>>, <<>>)
                 ELSE Op("message", IF delivered THEN 200 ELSE 500, webhookUrl, <<>>, <<>>)
    /\ UNCHANGED <<client, store, adapters, procs, qrJobs, now>>

\* ---- HTTP endpoints ----

\* GET /health
GetHealth ==
    /\ lastOp' = Op("health", 200, IF isReady THEN "connected" ELSE "disconnected",
                    <<>>, <<>>)
    /\ UNCHANGED <<client, store, adapters, procs, qrJobs, now>>

\* GET /auth/qr
GetAuthQr ==
    /\ lastOp' = IF isAuthenticated
                 THEN Op("auth/qr", 200, "Client already authenticated", <<>>, <<>>)
                 ELSE IF qrCodeData = NoQr
                      THEN Op("auth/qr", 503, "QR not ready yet", <<>>, <<>>)
                      ELSE Op("auth/qr", 200, "qr", <<>>, <<>>)
    /\ UNCHANGED <<client, store, adapters, procs, qrJobs, now>>

\* POST /send taking a failed sendMessage for a lost session (isReady = false)
PostSendMarking(to, ok) ==
    /\ lastOp' = IF ~isReady
                 THEN Op("send", 503, "Client not ready", to, <<>>)
                 ELSE Op("send", IF ok THEN 200 ELSE 500, "sendMessage", to, formatJID(to))
    /\ isReady' = (isReady /\ ok)
    /\ UNCHANGED <<client, qrCodeData, isAuthenticated, webhookUrl, isListening, lastReadyAt,
                   restarting, adapters, procs, qrJobs, now>>

\* POST /send {to, message}: 503 unless isReady; else
\* client.sendMessage(formatJID(to), message), which answers or throws
PostSend(to, ok) ==
    /\ lastOp' = IF ~isReady
                 THEN Op("send", 503, "Client not ready", to, <<>>)
                 ELSE Op("send", IF ok THEN 200 ELSE 500, "sendMessage", to, formatJID(to))
    /\ UNCHANGED <<client, store, adapters, procs, qrJobs, now>>

\* POST /reply {chatId, messageId, replyText}: 503 unless isReady; else
\* client.sendMessage(chatId, replyText, {quotedMessageId: messageId})
PostReply(chatId, ok) ==
    /\ lastOp' = IF ~isReady
                 THEN Op("reply", 503, "Client not ready", chatId, <<>>)
                 ELSE Op("reply", IF ok THEN 200 ELSE 500, "sendMessage", chatId, chatId)
    /\ UNCHANGED <<client, store, adapters, procs, qrJobs, now>>

\* GET /groups: 503 unless isReady; else client.getChats()
GetGroups(ok) ==
    /\ lastOp' = IF ~isReady
                 THEN Op("groups", 503, "Client not ready", <<>>, <<>>)
                 ELSE Op("groups", IF ok THEN 200 ELSE 500, "getChats", <<>>, <<>>)
    /\ UNCHANGED <<client, store, adapters, procs, qrJobs, now>>

\* GET /listen
GetListen ==
    /\ isListening' = TRUE
    /\ lastOp' = Op("listen", 200, "Listening enabled", <<>>, <<>>)
    /\ UNCHANGED <<client, qrCodeData, isAuthenticated, isReady, webhookUrl, lastReadyAt,
                   restarting, adapters, procs, qrJobs, now>>

\* POST /webhook/set {url}
PostWebhookSet(url) ==
    /\ webhookUrl' = url
    /\ lastOp' = Op("webhook/set", 200, url, <<>>, <<>>)
    /\ UNCHANGED <<client, qrCodeData, isAuthenticated, isReady, isListening, lastReadyAt,
                   restarting, adapters, procs, qrJobs, now>>

\* ---- the system ----

\* the lifecycle controller: start-up, adapter events, recovery
Lifecycle ==
    \/ StartServer
    \/ \E c \in Clients, qr \in QrPayloads : QrEvent(c, qr)
    \/ \E i \in 1..MaxJobs : QrEncoded(i)
    \/ \E c \in Clients : AuthenticatedEvent(c)
    \/ \E c \in Clients : ReadyEvent(c)
    \/ \E c \in Clients : AuthFailureEvent(c)
    \/ \E c \in Clients : DisconnectedEvent(c)
    \/ \E i \in 1..MaxRecov, rm \in RmOutcomes(TRUE) \cup RmOutcomes(FALSE) :
          DestroySettled(i, rm)
    \/ \E i \in 1..MaxRecov : SleepDone(i)

Http ==
    \/ GetHealth
    \/ GetAuthQr
    \/ \E to \in Identifiers, ok \in BOOLEAN : PostSend(to, ok)
    \/ \E chatId \in Identifiers, ok \in BOOLEAN : PostReply(chatId, ok)
    \/ \E ok \in BOOLEAN : GetGroups(ok)
    \/ GetListen
    \/ \E url \in Urls : PostWebhookSet(url)

Relay == \E c \in Clients, delivered \in BOOLEAN : MessageEvent(c, delivered)

Watchdog == \E k \in 1..MaxTime : WatchdogTick(k)

Next == Lifecycle \/ Watchdog \/ Http \/ Relay

\* The whole program.
Spec == Init /\ [][Next]_vars

\* The core, session controller and watchdog, while no HTTP request and no
\* inbound message arrives: those handlers write only lastOp, isListening and
\* webhookUrl, which the core never reads.
SpecCore == Init /\ [][Lifecycle \/ Watchdog]_vars

\* The session controller under HTTP traffic, within the first watchdog period.
SpecHttp == Init /\ [][Lifecycle \/ Http]_vars

\* The session controller alone, with destroy() and the settle delay bound to
\* return: every suspended hardRestart activation is eventually resumed.
SpecFair ==
    /\ Init /\ [][Lifecycle]_vars
    /\ WF_vars(\E i \in 1..MaxRecov, rm \in RmOutcomes(TRUE) \cup RmOutcomes(FALSE) :
                  DestroySettled(i, rm))
    /\ WF_vars(\E i \in 1..MaxRecov : SleepDone(i))

\* ---- properties ----

SessionPhases == {"Initializing", "AwaitingQR", "Authenticated", "Ready"}

AuthFailureStep == \E c \in Clients : AuthFailureEvent(c)

DisconnectedStep == \E c \in Clients : DisconnectedEvent(c)

\* a watchdog callback that reaches `hardRestart(false)`
StaleTickStep == now' # now /\ isReady /\ Stale(now')

TriggerStep == AuthFailureStep \/ DisconnectedStep \/ StaleTickStep

\* C1: in every reachable state at most one recovery sequence (a hardRestart
\* activation between `restarting = true` and its call of initializeClient)
\* is in flight.
C1_AtMostOneRecovery == Len(procs) <= 1

\* C2: a recovery trigger (auth_failure, disconnected, stale watchdog tick)
\* tests and sets the guard in one uninterrupted step: one that finds the guard
\* set calls nothing and changes nothing, one that finds it clear sets it and
\* starts exactly one recovery, and either way the guard is set when the step
\* ends, so that of any number of triggers run one after the other exactly one
\* performs the recovery.
C2_GuardedTriggers ==
    [][TriggerStep =>
         /\ restarting => UNCHANGED <<client, store, adapters, procs, qrJobs>>
         /\ ~restarting => \E w \in BOOLEAN :
                procs' = Insert(procs, [pc |-> "destroy", wipeAuth |-> w, target |-> client,
                                        calls |-> <<"destroy">>])
         /\ restarting']_vars

\* C2 witness: an auth_failure arrived last and was dropped, the one recovery
\* in flight being one without wipe
C2_Witness ==
    /\ lastOp.h = "auth_failure"
    /\ restarting
    /\ Len(procs) = 1
    /\ ~procs[1].wipeAuth

\* C3: never two adapter instances connected and not destroyed, and no adapter
\* is constructed while a recovery is still in progress (every recovery in
\* flight is the recovery of the current client).
C3_NoOverlappingInit ==
    /\ Cardinality({c \in Clients : adapters[c] \in {"connected", "destroying"}}) <= 1
    /\ \A i \in 1..Len(procs) : procs[i].target = client

\* C4: in a session phase with no recovery in flight, auth_failure starts a
\* recovery with wipe and disconnected one without; a recovery with wipe is
\* started by auth_failure only.
C4_FailureStartsRecovery ==
    [][/\ (AuthFailureStep /\ Phase \in SessionPhases /\ procs = <<>>)
            => (Len(procs') = 1 /\ procs'[1].wipeAuth)
       /\ (DisconnectedStep /\ Phase \in SessionPhases /\ procs = <<>>)
            => (Len(procs') = 1 /\ ~procs'[1].wipeAuth)
       /\ (Cardinality({i \in 1..Len(procs') : procs'[i].wipeAuth})
              > Cardinality({i \in 1..Len(procs) : procs[i].wipeAuth}))
            => AuthFailureStep]_vars

\* C5: after a session-fatal event the controller eventually initializes
\* anew (a new client is constructed), unless no instance is left to
\* construct.  States in which the watchdog is due to start a recovery
\* (isReady with the guard clear) are not held against it.
C5_SelfHealing ==
    \A c \in Clients :
        (client = c /\ lastOp.h \in {"auth_failure", "disconnected"})
            ~> (client # c \/ Unused = {} \/ (isReady /\ ~restarting))

\* C6: while the phase is not Ready, /send, /reply and /groups answer 503
\* without calling the adapter and /health reports disconnected.
C6_NotReadyIs503 ==
    [][Phase # "Ready" =>
         /\ (\E to \in Identifiers, ok \in BOOLEAN : PostSend(to, ok))
              => (lastOp'.status = 503 /\ lastOp'.jid = <<>>)
         /\ (\E chatId \in Identifiers, ok \in BOOLEAN : PostReply(chatId, ok))
              => (lastOp'.status = 503 /\ lastOp'.jid = <<>>)
         /\ (\E ok \in BOOLEAN : GetGroups(ok)) => lastOp'.status = 503
         /\ GetHealth => lastOp'.body = "disconnected"]_vars

\* C7: qrCodeData is non-null if and only if the phase is AwaitingQR.
C7_QrIffAwaitingQR == (qrCodeData # NoQr) <=> (Phase = "AwaitingQR")

\* C8: when ready is the last event emitted and every handler has run to
\* completion (no QR encoding pending, no recovery suspended), the session is
\* Ready: isReady, authenticated, no QR payload.
C8_ReadyWins ==
    (lastOp.h = "ready" /\ qrJobs = <<>> /\ procs = <<>>)
        => (isReady /\ isAuthenticated /\ qrCodeData = NoQr /\ Phase = "Ready")

\* C9: a watchdog tick starts a recovery without wipe if and only if the phase
\* is Ready and now - lastReadyAt exceeds the threshold; any other tick leaves
\* the runtime state, the client, the adapters and the recoveries unchanged.
C9_WatchdogIff ==
    [][now' # now =>
         IF Phase = "Ready" /\ lastReadyAt # Null /\ now' - lastReadyAt > StaleTicks
         THEN /\ restarting'
              /\ procs' = Insert(procs, [pc |-> "destroy", wipeAuth |-> FALSE,
                                         target |-> client, calls |-> <<"destroy">>])
              /\ UNCHANGED <<client, qrCodeData, isAuthenticated, isReady, webhookUrl,
                             isListening, lastReadyAt, qrJobs>>
         ELSE UNCHANGED <<client, store, adapters, procs, qrJobs>>]_vars

\* C9 witness: the watchdog has just started a recovery, one period past the
\* threshold
C9_Witness ==
    /\ lastOp.h = "watchdog"
    /\ lastOp.body = "Heartbeat lost"
    /\ now - lastReadyAt = StaleTicks + 1
    /\ restarting
    /\ Len(procs) = 1
    /\ procs[1] = [pc |-> "destroy", wipeAuth |-> FALSE, target |-> client,
                   calls |-> <<"destroy">>]

\* the normal form of a target identifier, as the interface states it
Normalized(id) ==
    IF \E i \in 1..Len(id) : id[i] = "@" THEN id
    ELSE IF \E i \in 1..Len(id) : id[i] = "-" THEN id \o <<"@", "g", ".", "u", "s">>
    ELSE id \o <<"@", "c", ".", "u", "s">>

\* C10: every identifier handed to client.sendMessage by /send and by /reply
\* is the normal form of the identifier received.
C10_TargetsNormalized ==
    (lastOp.h \in {"send", "reply"} /\ lastOp.body = "sendMessage" /\ lastOp.arg # <<>>)
        => lastOp.jid = Normalized(lastOp.arg)

QrEncodedStep == \E i \in 1..MaxJobs : QrEncoded(i)

AuthenticatedStep == \E c \in Clients : AuthenticatedEvent(c)

ReadyStep == \E c \in Clients : ReadyEvent(c)

\* C11: adapter events move the phase along the rows of the transition table
\* only (qr: Initializing -> AwaitingQR; authenticated: Initializing or
\* AwaitingQR -> Authenticated; ready: any -> Ready), and an event without a
\* row for the current phase (qr or authenticated while Ready, qr while
\* Authenticated) leaves qrCodeData, isAuthenticated, isReady, lastReadyAt and
\* restarting, and with them the phase, unchanged.  The qr taking effect is
\* the one emitted last.  (The rows of auth_failure and disconnected are C4.)
C11_TransitionTable ==
    [][/\ (QrEncodedStep /\ lastOp.h = "qr" /\ Phase \in {"Ready", "Authenticated"})
            => UNCHANGED <<qrCodeData, isAuthenticated, isReady, lastReadyAt, restarting>>
       /\ (AuthenticatedStep /\ Phase = "Ready")
            => UNCHANGED <<qrCodeData, isAuthenticated, isReady, lastReadyAt, restarting>>
       /\ (QrEncodedStep /\ lastOp.h = "qr" /\ Phase = "Initializing")
            => Phase' = "AwaitingQR"
       /\ (AuthenticatedStep /\ Phase \in {"Initializing", "AwaitingQR"})
            => Phase' = "Authenticated"
       /\ ReadyStep => Phase' = "Ready"]_vars

\* the calls of a hardRestart activation that has reached its last step
FullRecovery(wipeAuth) ==
    IF wipeAuth THEN <<"destroy", "rmAuth", "rmCache", "sleep">>
    ELSE <<"destroy", "sleep">>

\* C12: an accepted recovery sets restarting and calls destroy() on the
\* current client in its first step; a recovery calls initializeClient (a new
\* client appears) only from behind the settle delay, having called destroy,
\* then, exactly when wipe was requested, both deletions, then sleep, and with
\* the destroy() of its client settled.
C12_RecoveryOrder ==
    [][/\ Len(procs') > Len(procs)
            => /\ restarting'
               /\ adapters'[client] # "connected"
               /\ \E w \in BOOLEAN :
                     procs' = Insert(procs, [pc |-> "destroy", wipeAuth |-> w,
                                             target |-> client, calls |-> <<"destroy">>])
       /\ (client' # client /\ client # NoClient)
            => \E i \in 1..Len(procs) :
                  /\ procs[i].pc = "sleep"
                  /\ procs[i].calls = FullRecovery(procs[i].wipeAuth)
                  /\ adapters[procs[i].target] = "destroyed"
                  /\ procs' = Remove(procs, i)]_vars

\* C12 witness: a recovery has re-initialized (a second client exists) and a
\* further one, with wipe, has made all its calls and waits out its delay
C12_Witness ==
    /\ client = 2
    /\ Len(procs) = 1
    /\ procs[1].pc = "sleep"
    /\ procs[1].wipeAuth
    /\ procs[1].calls = <<"destroy", "rmAuth", "rmCache", "sleep">>

\* C13: no failure of destroy() or of a directory deletion abandons a
\* recovery: a hardRestart activation ends only by calling initializeClient,
\* which constructs and connects a new client.
C13_ErrorsNonFatal ==
    [][Len(procs') < Len(procs)
         => (client' # client /\ adapters'[client'] = "connected")]_vars

\* C14: whenever the session is ready lastReadyAt is set; lastReadyAt changes
\* only in the ready handler, which enters Ready, to the current time and never
\* to an earlier one; every other event, the watchdog, recovery and
\* (re)initialization leave it unchanged.
C14_LastReadyAt ==
    /\ []((isReady \/ Phase = "Ready") => lastReadyAt # Null)
    /\ [][lastReadyAt' # lastReadyAt
            => /\ ReadyStep
               /\ Phase' = "Ready"
               /\ lastReadyAt' = now
               /\ lastReadyAt' > lastReadyAt]_vars

\* C14 witness: Ready entered again, by the client of a recovery, at a later
\* time than the first
C14_Witness ==
    /\ Phase = "Ready"
    /\ client = 2
    /\ lastReadyAt >= StaleTicks
    /\ lastReadyAt = now

\* a session whose adapter reports no failure: start-up, qr, authenticated and
\* ready, and the continuations of the recoveries the watchdog starts
Session ==
    \/ StartServer
    \/ \E c \in Clients, qr \in QrPayloads : QrEvent(c, qr)
    \/ \E i \in 1..MaxJobs : QrEncoded(i)
    \/ \E c \in Clients : AuthenticatedEvent(c)
    \/ \E c \in Clients : ReadyEvent(c)
    \/ \E i \in 1..MaxRecov : DestroySettled(i, "kept")
    \/ \E i \in 1..MaxRecov : SleepDone(i)

\* The readers of the runtime state, HTTP handlers and watchdog, over such a
\* session.
SpecStore == Init /\ [][Session \/ Watchdog \/ Http]_vars

HttpHandlers == {"health", "auth/qr", "send", "reply", "groups", "listen", "webhook/set"}

\* a request handled (the same request answered the same way twice in a row
\* changes nothing at all)
HttpStep == lastOp' # lastOp /\ lastOp'.h \in HttpHandlers

\* C15 as stated: no HTTP handler, whatever its answer, changes a field of the
\* runtime state (qrCodeData, isAuthenticated, isReady, lastReadyAt,
\* webhookUrl, isListening, restarting).
C15_HttpWritesNothing == [][HttpStep => UNCHANGED store]_vars

\* C15, amended: no HTTP handler changes the session fields (qrCodeData,
\* isAuthenticated, isReady, lastReadyAt, restarting), the client or a
\* recovery; of the relay configuration GET /listen alone changes isListening
\* and POST /webhook/set alone changes webhookUrl; a watchdog callback changes
\* the runtime state only by starting a recovery (restarting set, nothing else).
C15_SingleWriter ==
    [][/\ HttpStep => UNCHANGED <<client, qrCodeData, isAuthenticated, isReady, lastReadyAt,
                                  restarting, adapters, procs, qrJobs>>
       /\ (HttpStep /\ isListening' # isListening) => lastOp'.h = "listen"
       /\ (HttpStep /\ webhookUrl' # webhookUrl) => lastOp'.h = "webhook/set"
       /\ now' # now
            => /\ UNCHANGED <<qrCodeData, isAuthenticated, isReady, lastReadyAt,
                              webhookUrl, isListening>>
               /\ restarting' # restarting
                    => (restarting' /\ Len(procs') = Len(procs) + 1)]_vars

\* C15 witness: a request failed with a 500 adapter error while a recovery
\* started by the watchdog is in flight, the relay being configured
C15_Witness ==
    /\ lastOp.h = "send"
    /\ lastOp.status = 500
    /\ isListening
    /\ webhookUrl # NoUrl
    /\ now > StaleTicks
    /\ Len(procs) = 1
    /\ ~procs[1].wipeAuth

\* The webhook relay and its configuration over the session controller.
SpecRelay ==
    Init /\ [][Lifecycle \/ Relay \/ GetListen \/ (\E url \in Urls : PostWebhookSet(url))]_vars

\* an inbound message handled
MessageStep == lastOp' # lastOp /\ lastOp'.h = "message"

\* C16: an inbound message makes one POST, to webhookUrl, exactly when
\* isListening is true and webhookUrl is set at that moment, and none
\* otherwise; delivered or failed, the handler makes no second attempt and
\* changes neither the runtime state nor the client, and starts no recovery.
C16_RelayOnce ==
    [][MessageStep =>
         /\ lastOp' = IF isListening /\ webhookUrl # NoUrl
                      THEN Op("message", lastOp'.status, webhookUrl, <<>>, <<>>)
                      ELSE Op("message", 0, "ignored", <<>>, <<>>)
         /\ (isListening /\ webhookUrl # NoUrl) => lastOp'.status \in {200, 500}
         /\ UNCHANGED <<client, store, adapters, procs, qrJobs, now>>]_vars

\* C16 witness: a delivery failed while the session is ready
C16_Witness ==
    /\ lastOp.h = "message"
    /\ lastOp.status = 500
    /\ lastOp.body = webhookUrl
    /\ isListening
    /\ Phase = "Ready"

\* C17: the guard does not stay set over a session that is not ready with no
\* recovery under way: from every such state the guard is eventually clear
\* again, or a recovery has been started, or (the case the claim leaves aside)
\* the client has reported ready after all.
C17_GuardReleased ==
    (restarting /\ ~isReady /\ procs = <<>>)
        ~> (~restarting \/ procs # <<>> \/ isReady)

\* C18: while a recovery is in progress and no instance is connected (the
\* current client has had destroy() called on it), a ready or authenticated
\* event, which can only come from that superseded instance, changes none of
\* qrCodeData, isAuthenticated, isReady, lastReadyAt and restarting.
C18_StaleEventsIgnored ==
    [][((ReadyStep \/ AuthenticatedStep)
          /\ procs # <<>>
          /\ \A c \in Clients : adapters[c] # "connected")
         => UNCHANGED <<qrCodeData, isAuthenticated, isReady, lastReadyAt, restarting>>]_vars

C20_RelayConfigKept ==
    [][/\ isListening => isListening'
       /\ isListening' # isListening => GetListen
       /\ webhookUrl' # webhookUrl => \E url \in Urls : PostWebhookSet(url)]_vars

\* C20 witness: the configuration made before an auth_failure is intact after
\* the recovery with wipe has re-initialized
C20_Witness ==
    /\ lastOp.h = "auth_failure"
    /\ client = 2
    /\ adapters[1] = "destroyed"
    /\ procs = <<>>
    /\ isListening
    /\ webhookUrl \in Urls

====
